---- MODULE Spec2Model ----
(***************************************************************************)
(* A model of the agent-process bridge of opencode-acp-chat:               *)
(* src/src/acp/AcpClient.ts.                                               *)
(*                                                                         *)
(* One step of the model is one run-to-completion turn of the JavaScript   *)
(* event loop: a public method up to its first await, the continuation of  *)
(* an await, or one event callback.  The connection attempts made by       *)
(* connect() are numbered 1, 2, ...; attempt i owns agent process i and    *)
(* protocol connection i.  0 stands for the null handle.                   *)
(***************************************************************************)
EXTENDS Integers, Sequences, FiniteSets, TLC

VARIABLES
  state,            \* AcpClient.state
  connection,       \* AcpClient.connection: 0 (null) or the attempt that made it
  process,          \* AcpClient.process: 0 (null) or the attempt that spawned it
  sessionId,        \* AcpClient.sessionId
  metadata,         \* AcpClient.metadata
  terminals,        \* AcpClient.terminals: the registered terminal ids
  terminalCounter,  \* AcpClient.terminalCounter
  tproc,            \* the ManagedTerminal objects ever created, by id
  connCount,        \* number of agent processes spawned so far
  pc,               \* position of the connect() call of each attempt
  agent,            \* the agent subprocess of each attempt
  streamClosed,     \* whether the ndJson stream of each connection has ended
  closedHooks,      \* callbacks registered on connection.closed and not yet run
  pending,          \* outbound requests awaiting their response
  lastOp,           \* the operation the last step ran
  afterTeardown,    \* whether the step before it ran cleanupDisconnected()
  result,           \* its outcome for the caller
  emitted,          \* the events it fired, in order
  terminalId,       \* the terminal id it was called with or returned, else 0
  repeated,         \* whether the step before it ran the same call on that id
  response,         \* the TerminalOutputResponse it returned or the
                    \* NewSessionResponse it got, else <<>>
  permission,       \* the last permission request, its chooser and its outcome
  read,             \* the last readTextFile call: the file, line, limit, content
  inbound,          \* the session/update notification it handled, else NoUpdate
  config,           \* the defaultModel setting, the models of the agent, whether
                    \* the connection has unstable_setSessionModel, and how the
                    \* default-model request of the step ended, else Null
  view              \* ChatViewProvider: promptInFlight, currentChatId, where each
                    \* handler of a webview message stands, the prompt requests
                    \* it awaits and what the step posted to the webview

vars == <<state, connection, process, sessionId, metadata, terminals,
          terminalCounter, tproc, connCount, pc, agent, streamClosed,
          closedHooks, pending, lastOp, afterTeardown, result, emitted,
          terminalId, repeated, response, permission, read, inbound, config,
          view>>

\* the client's own fields (what a caller can observe of AcpClient)
clientVars == <<state, connection, process, sessionId, metadata, terminals,
                terminalCounter>>

-----------------------------------------------------------------------------
(* Bounds *)
MaxConnects == 2        \* connection attempts in Spec
SessionConnects == 1    \* connection attempts in SpecSession
MaxInFlight == 1        \* requests after the handshake awaiting a response
MaxTerminals == 1       \* terminals created
MaxLimit == 3           \* largest outputByteLimit a terminal is created with
MaxChunk == 2           \* characters in one chunk of terminal output
MaxOutput == 4          \* characters appended to a buffer that has no limit
MaxCreated == 2         \* terminals created in SpecRegistry
MaxWaiters == 2         \* callers suspended in waitForTerminalExit on one terminal
MaxOptions == 3         \* options of a permission request
MaxLines == 5           \* lines of a file read by readTextFile
MaxWindow == 3          \* largest line and limit of a readTextFile call
MaxQuery == 2           \* characters of the defaultModel setting
MaxModels == 2          \* models an agent offers
MaxPrompts == 2         \* prompt messages of the webview handled in a run

(* Program constants *)
PROTOCOL_VERSION == 1
NoLimit == -1           \* outputByteLimit: null

Null == "null"

\* the steps that run cleanupDisconnected(): the observers of the agent
\* process, the closed callback, disconnect() and the catch block of connect()
TeardownTriggers == {"processExit", "processError", "closedCallback", "disconnect"}
TeardownOps == TeardownTriggers \cup {"initializeRejected"}

\* the record of a step that ran op on terminal id t
record(op, t) ==
  /\ lastOp' = op
  /\ afterTeardown' = (lastOp \in TeardownOps)
  /\ terminalId' = t
  /\ repeated' = (t # 0 /\ lastOp = op /\ terminalId = t)

\* a value that is no array
NoArray == <<Null>>

\* no session/update notification
NoUpdate == [sessionId |-> Null, sessionUpdate |-> Null, availableCommands |-> NoArray,
             currentModeId |-> Null, currentModelId |-> Null]

\* the same for a step that returns no TerminalOutputResponse, is no part of a
\* permission request, reads no file and handles no notification
terminalStep(op, t) ==
  /\ record(op, t)
  /\ response' = <<>>
  /\ permission' = permission
  /\ read' = read
  /\ inbound' = NoUpdate
  /\ config' = [config EXCEPT !.outcome = Null]
  /\ view' = view

\* the record of a step that ran op, which is about no terminal id
step(op) == terminalStep(op, 0)

Conns == 1..MaxConnects
TermIds == 1..MaxTerminals
SessionIds == {"s1", "s2"}

ConnectionState == {"disconnected", "connecting", "connected"}

\* the modes and models objects of a NewSessionResponse.  handedAs is no field
\* of the object: it is the current id the object had when a subscriber first
\* got hold of it, Null while none has
NoModes == [currentModeId |-> Null, availableModes |-> Null, handedAs |-> Null]
NoModels == [currentModelId |-> Null, availableModels |-> Null, handedAs |-> Null]

\* SessionMetadata; {} is the record with every field absent
EmptyMeta == [modes |-> NoModes, models |-> NoModels, commands |-> NoArray,
              configOptions |-> Null]

\* the events of onStateEmitter, onMetadataEmitter and onSessionUpdateEmitter
StateEvent(s) == [ev |-> "state", state |-> s, meta |-> EmptyMeta, update |-> NoUpdate]
MetadataEvent(m) == [ev |-> "metadata", state |-> Null, meta |-> m, update |-> NoUpdate]
SessionUpdateEvent(params) ==
  [ev |-> "sessionUpdate", state |-> Null, meta |-> EmptyMeta, update |-> params]

\* a subscriber gets hold of the metadata object m, and with it of its modes
\* and models objects
handOut(m) ==
  [m EXCEPT
     !.modes = IF m.modes # NoModes /\ m.modes.handedAs = Null
                 THEN [m.modes EXCEPT !.handedAs = m.modes.currentModeId]
                 ELSE m.modes,
     !.models = IF m.models # NoModels /\ m.models.handedAs = Null
                  THEN [m.models EXCEPT !.handedAs = m.models.currentModelId]
                  ELSE m.models]

\* setState(next): assigns and fires only on a change
setStateEvents(cur, next) == IF cur = next THEN <<>> ELSE <<StateEvent(next)>>

\* faulty variant: the signal is delivered and .killed is left as it was
killUnflagged(p) == IF p.alive THEN [p EXCEPT !.kills = @ + 1] ELSE p

\* ChildProcess.kill(): a signal is delivered, and .killed set, only when the
\* process still runs
kill(p) == IF p.alive THEN [p EXCEPT !.killed = TRUE, !.kills = @ + 1] ELSE p

\* faulty variant: the loop kills nothing
killRegisteredSkipped(tp, reg) == tp

\* the loop of cleanupDisconnected over this.terminals
killRegistered(tp, reg) ==
  [t \in DOMAIN tp |-> IF t \in reg /\ ~tp[t].killed THEN kill(tp[t]) ELSE tp[t]]

\* process.removeAllListeners() on this.process
removeListeners(ag, p) == IF p # 0 THEN [ag EXCEPT ![p].listeners = FALSE] ELSE ag

\* faulty variant: the registry is not cleared
clearTerminalsSkipped(reg) == reg

\* this.terminals.clear()
clearTerminals(reg) == {}

\* cleanupDisconnected(), run with isDisposing = false, on agent table ag, after
\* the caller has already fired the events evs
cleanupDisconnected(ag, evs) ==
  /\ state' = "disconnected"
  /\ connection' = 0
  /\ sessionId' = Null
  /\ metadata' = EmptyMeta
  /\ emitted' = evs \o setStateEvents(state, "disconnected") \o <<MetadataEvent(EmptyMeta)>>
  /\ agent' = removeListeners(ag, process)
  /\ process' = 0
  /\ tproc' = killRegistered(tproc, terminals)
  /\ terminals' = clearTerminals(terminals)

\* ensureConnection() / ensureSession() succeed
ensureConnection == connection # 0 /\ state = "connected"
\* faulty variant: the session id is not looked at
ensureSessionUnchecked == TRUE
ensureSession == sessionId # Null

Req(k, m) == [conn |-> k, method |-> m]

\* the ids and names of the models of an agent, and their characters
ModelIds == {"m", "mA", "mB"}
ModelNames == {"A", "mb"}
chars(s) ==
  CASE s = "m" -> <<"m">>
    [] s = "mA" -> <<"m", "A">>
    [] s = "mB" -> <<"m", "B">>
    [] s = "A" -> <<"A">>
    [] s = "mb" -> <<"m", "b">>

\* the default setting, an agent without models, a connection that has
\* unstable_setSessionModel
NoConfig == [query |-> <<"m">>, hasModels |-> FALSE, availableModels |-> <<>>,
             currentModelId |-> Null, hasSetModel |-> TRUE, outcome |-> Null]

\* String.prototype.toLowerCase, on the characters the model has
lowerCase(c) == CASE c = "A" -> "a" [] c = "B" -> "b" [] OTHER -> c
toLowerCase(s) == [n \in DOMAIN s |-> lowerCase(s[n])]

\* String.prototype.trim
trim(s) ==
  LET kept == {n \in DOMAIN s : s[n] # " "}
      first == CHOOSE n \in kept : \A o \in kept : n <= o
      last == CHOOSE n \in kept : \A o \in kept : n >= o
  IN IF kept = {} THEN <<>> ELSE SubSeq(s, first, last)

\* String.prototype.includes
includes(s, q) ==
  \E n \in 0..(Len(s) - Len(q)) : SubSeq(s, n + 1, n + Len(q)) = q

\* the lower-cased id and name of the n-th model: lines 163-164, 172-173
lowerId(available, n) == toLowerCase(chars(available[n].modelId))
lowerName(available, n) == toLowerCase(chars(available[n].name))

\* Array.prototype.find: the index of the first of the models that pass the
\* test, 0 if none does
findModel(passing) ==
  IF passing = {} THEN 0 ELSE CHOOSE n \in passing : \A o \in passing : n <= o

\* faulty variant: the first model that contains the query, equal to it or not
resolveFirstContaining(setting, hasModels, available) ==
  LET query == trim(setting)
      normalizedQuery == toLowerCase(query)
      partial == findModel({n \in DOMAIN available :
                              \/ includes(lowerId(available, n), normalizedQuery)
                              \/ includes(lowerName(available, n), normalizedQuery)})
  IN IF query = <<>> \/ ~hasModels \/ available = <<>> \/ partial = 0 THEN Null
     ELSE available[partial].modelId

\* resolveConfiguredDefaultModelId (lines 147-178) for the defaultModel setting
\* as configured, before the trim of configuredDefaultModelQuery (line 144)
resolveConfiguredDefaultModelId(setting, hasModels, available) ==
  LET query == trim(setting)
      normalizedQuery == toLowerCase(query)
      exact == findModel({n \in DOMAIN available :
                            \/ lowerId(available, n) = normalizedQuery
                            \/ lowerName(available, n) = normalizedQuery})
      partial == findModel({n \in DOMAIN available :
                              \/ includes(lowerId(available, n), normalizedQuery)
                              \/ includes(lowerName(available, n), normalizedQuery)})
  IN IF query = <<>> \/ ~hasModels THEN Null
     ELSE IF available = <<>> THEN Null
     ELSE IF exact # 0 THEN available[exact].modelId
     ELSE IF partial # 0 THEN available[partial].modelId
     ELSE Null

\* the guard of the default-model step of newSession(): line 336
appliesDefault(preferredModelId, currentModelId, hasSetModel) ==
  preferredModelId # Null /\ preferredModelId # currentModelId /\ hasSetModel

\* ChatViewProvider after its constructor: no prompt in flight, no chat (0),
\* no message of the webview being handled, nothing posted
NoView == [promptInFlight |-> FALSE, currentChatId |-> 0,
           prompts |-> [h \in 1..MaxPrompts |-> "idle"], sent |-> 0,
           other |-> Null, posted |-> <<>>]

\* typeof params.line, params.limit is not "number"
Absent == -2

\* no readTextFile call yet
NoRead == [content |-> <<>>, line |-> Absent, limit |-> Absent, returned |-> <<>>]

\* no permission request yet
NoPermission == [mode |-> "ask", options |-> <<>>, shown |-> FALSE, open |-> FALSE,
                 picked |-> 0, outcome |-> <<>>]

-----------------------------------------------------------------------------
Init ==
  /\ state = "disconnected"
  /\ connection = 0
  /\ process = 0
  /\ sessionId = Null
  /\ metadata = EmptyMeta
  /\ terminals = {}
  /\ terminalCounter = 0
  /\ tproc = <<>>
  /\ connCount = 0
  /\ pc = [i \in Conns |-> "unused"]
  /\ agent = [i \in Conns |-> [alive |-> FALSE, killed |-> FALSE, listeners |-> FALSE]]
  /\ streamClosed = [i \in Conns |-> FALSE]
  /\ closedHooks = [i \in Conns |-> 0]
  /\ pending = {}
  /\ lastOp = "init"
  /\ afterTeardown = FALSE
  /\ result = "ok"
  /\ emitted = <<>>
  /\ terminalId = 0
  /\ repeated = FALSE
  /\ response = <<>>
  /\ permission = NoPermission
  /\ read = NoRead
  /\ inbound = NoUpdate
  /\ config = NoConfig
  /\ view = NoView

-----------------------------------------------------------------------------
\* faulty variants: an early exit of connect() is missing
alreadyConnectedUnchecked == FALSE
alreadyConnectingUnchecked == FALSE

\* the two early exits of connect(): lines 181 and 184
alreadyConnected == state = "connected"
alreadyConnecting == state = "connecting"

(* connect(), up to its await of connection.initialize: lines 180-267.
   maxc bounds the processes spawned in a run. *)
connect(maxc) ==
  /\ step("connect")
  /\ \/ /\ alreadyConnected
        /\ result' = "ok"
        /\ emitted' = <<>>
        /\ UNCHANGED <<clientVars, tproc, connCount, pc, agent, streamClosed,
                       closedHooks, pending>>
     \/ /\ ~alreadyConnected
        /\ alreadyConnecting
        /\ result' = "AlreadyConnecting"
        /\ emitted' = <<>>
        /\ UNCHANGED <<clientVars, tproc, connCount, pc, agent, streamClosed,
                       closedHooks, pending>>
     \/ \* the configured command is empty
        /\ ~alreadyConnected
        /\ ~alreadyConnecting
        /\ result' = "SpawnError"
        /\ emitted' = setStateEvents(state, "connecting")
                        \o setStateEvents("connecting", "disconnected")
        /\ state' = "disconnected"
        /\ UNCHANGED <<connection, process, sessionId, metadata, terminals,
                       terminalCounter, tproc, connCount, pc, agent, streamClosed,
                       closedHooks, pending>>
     \/ \* the process is spawned without stdin/stdout
        /\ ~alreadyConnected
        /\ ~alreadyConnecting
        /\ connCount < maxc
        /\ connCount' = connCount + 1
        /\ cleanupDisconnected(
             [agent EXCEPT ![connCount + 1] =
                [alive |-> FALSE, killed |-> FALSE, listeners |-> FALSE]],
             setStateEvents(state, "connecting")
               \o setStateEvents("connecting", state))
        /\ result' = "SpawnError"
        /\ UNCHANGED <<terminalCounter, pc, streamClosed, closedHooks, pending>>
     \/ \* the process is spawned and initialize is sent
        /\ ~alreadyConnected
        /\ ~alreadyConnecting
        /\ connCount < maxc
        /\ connCount' = connCount + 1
        /\ state' = "connecting"
        /\ process' = connCount + 1
        /\ connection' = connCount + 1
        /\ agent' = [agent EXCEPT ![connCount + 1] =
                       [alive |-> TRUE, killed |-> FALSE, listeners |-> TRUE]]
        /\ pc' = [pc EXCEPT ![connCount + 1] = "awaitInit"]
        /\ pending' = pending \cup {Req(connCount + 1, "initialize")}
        /\ result' = "pending"
        /\ emitted' = setStateEvents(state, "connecting")
        /\ UNCHANGED <<sessionId, metadata, terminals, terminalCounter, tproc,
                       streamClosed, closedHooks>>

(* the continuation of connect() after initialize resolved: lines 273-279.
   res is the agent's answer: a result carrying the client's protocol version,
   another version or none at all, or the result null *)
NoVersion == -1         \* a result without protocolVersion
NullResult == -2        \* the result null
InitResults == {PROTOCOL_VERSION, PROTOCOL_VERSION + 1, NoVersion, NullResult}

initializeOp(res) ==
  CASE res = NullResult -> "initialize.null"
    [] res = NoVersion -> "initialize.noVersion"
    [] res = PROTOCOL_VERSION -> "initialize.ok"
    [] OTHER -> "initialize.mismatch"

initializeResolved(i, res) ==
  /\ IF res = NullResult
       THEN \* initResponse.protocolVersion throws a TypeError
            /\ pc' = [pc EXCEPT ![i] = "typeError"]
            /\ result' = "TypeError"
            /\ emitted' = <<>>
            /\ UNCHANGED <<state, closedHooks>>
       ELSE /\ state' = "connected"
            /\ emitted' = setStateEvents(state, "connected")
            /\ IF connection = 0
                 THEN \* this.connection.closed throws a TypeError
                      /\ pc' = [pc EXCEPT ![i] = "typeError"]
                      /\ result' = "TypeError"
                      /\ UNCHANGED closedHooks
                 ELSE /\ pc' = [pc EXCEPT ![i] = "resolved"]
                      /\ result' = "ok"
                      /\ closedHooks' = [closedHooks EXCEPT ![connection] = @ + 1]

InitializeResponse(i) ==
  /\ Req(i, "initialize") \in pending
  /\ ~streamClosed[i]
  /\ pending' = pending \ {Req(i, "initialize")}
  /\ \E res \in InitResults :
       /\ step(initializeOp(res))
       /\ initializeResolved(i, res)
  /\ UNCHANGED <<connection, process, sessionId, metadata, terminals,
                 terminalCounter, tproc, connCount, agent, streamClosed>>

\* a pending request of connection k can fail: the agent answers it with an
\* error, the write to the agent's stdin fails, or the protocol library rejects
\* it once the stream has ended (whether it does is the library's choice)
canFail(k) == pc[k] # "unused"

\* faulty variant: the catch block rethrows without cleaning up
initializeRejectedNoCleanup(i) ==
  /\ pc' = [pc EXCEPT ![i] = "initFailed"]
  /\ result' = "InitializeFailed"
  /\ emitted' = <<>>
  /\ UNCHANGED <<state, connection, process, sessionId, metadata, terminals,
                 tproc, agent>>

(* the catch block of connect(): lines 268-271 *)
initializeRejected(i) ==
  /\ cleanupDisconnected(agent, <<>>)
  /\ pc' = [pc EXCEPT ![i] = "initFailed"]
  /\ result' = "InitializeFailed"

InitializeError(i) ==
  /\ Req(i, "initialize") \in pending
  /\ canFail(i)
  /\ step("initializeRejected")
  /\ pending' = pending \ {Req(i, "initialize")}
  /\ initializeRejected(i)
  /\ UNCHANGED <<terminalCounter, connCount, streamClosed, closedHooks>>

(* the "error" observer of the agent process: lines 217-220.  An error event
   comes from a failed spawn (the process never ran) or a failed kill or send
   (the process still runs).  Without listeners the event reaches no code of
   the client. *)
ProcessError(i) ==
  /\ i <= connCount
  /\ agent[i].listeners
  /\ step("processError")
  /\ result' = "ok"
  /\ \E dies \in BOOLEAN :
       cleanupDisconnected([agent EXCEPT ![i].alive = @ /\ ~dies], <<>>)
  /\ UNCHANGED <<terminalCounter, connCount, pc, streamClosed, closedHooks,
                 pending>>

(* the agent process terminates; its "exit" observer: lines 222-225 *)
ProcessExit(i) ==
  /\ i <= connCount
  /\ agent[i].alive
  /\ step(IF agent[i].listeners THEN "processExit" ELSE "exitUnobserved")
  /\ result' = "ok"
  /\ IF agent[i].listeners
       THEN cleanupDisconnected([agent EXCEPT ![i].alive = FALSE], <<>>)
       ELSE /\ agent' = [agent EXCEPT ![i].alive = FALSE]
            /\ emitted' = <<>>
            /\ UNCHANGED <<state, connection, process, sessionId, metadata,
                           terminals, tproc>>
  /\ UNCHANGED <<terminalCounter, connCount, pc, streamClosed, closedHooks,
                 pending>>

(* the stream of connection k ends: connection.closed resolves *)
StreamClosed(k) ==
  /\ pc[k] # "unused"
  /\ ~streamClosed[k]
  /\ step("streamClosed")
  /\ result' = "ok"
  /\ emitted' = <<>>
  /\ streamClosed' = [streamClosed EXCEPT ![k] = TRUE]
  /\ UNCHANGED <<clientVars, tproc, connCount, pc, agent, closedHooks, pending>>

(* the callback given to connection.closed.then: lines 276-279 *)
ClosedCallback(k) ==
  /\ streamClosed[k]
  /\ closedHooks[k] > 0
  /\ step("closedCallback")
  /\ result' = "ok"
  /\ closedHooks' = [closedHooks EXCEPT ![k] = @ - 1]
  /\ cleanupDisconnected(agent, <<>>)
  /\ UNCHANGED <<terminalCounter, connCount, pc, streamClosed, pending>>

(* disconnect(): lines 634-644.  While isDisposing is set an error event that
   process.kill() fires synchronously finds cleanupDisconnected() a no-op; the
   finally block then resets the flag and runs it. *)
disconnect ==
  /\ step("disconnect")
  /\ result' = "ok"
  /\ cleanupDisconnected(
       IF process # 0 /\ ~agent[process].killed /\ agent[process].alive
         THEN [agent EXCEPT ![process].killed = TRUE]
         ELSE agent,
       <<>>)
  /\ UNCHANGED <<terminalCounter, connCount, pc, streamClosed, closedHooks,
                 pending>>

-----------------------------------------------------------------------------
(* Outbound requests after the handshake *)

\* the requests sent with the session id of ensureSession()
SessionMethods == {"prompt", "cancel", "setSessionMode", "setSessionModel"}

\* requests other than initialize that await their response
inFlight == {r \in pending : r.method # "initialize"}

\* the modes and models of a response: absent, or an object with the current
\* id and the list of those available
responseModes(modeId) ==
  IF modeId = Null THEN NoModes
  ELSE [currentModeId |-> modeId, availableModes |-> "modes", handedAs |-> Null]
responseModels(modelId) ==
  IF modelId = Null THEN NoModels
  ELSE [currentModelId |-> modelId, availableModels |-> "models", handedAs |-> Null]

\* faulty variant: the command list of the session before is kept
sessionMetadataKeepsCommands(modeId, modelId) ==
  [modes |-> responseModes(modeId), models |-> responseModels(modelId),
   commands |-> metadata.commands, configOptions |-> "cfg"]

\* the metadata newSession() builds from its response: lines 327-332
sessionMetadata(modeId, modelId) ==
  [modes |-> responseModes(modeId), models |-> responseModels(modelId),
   commands |-> <<>>, configOptions |-> "cfg"]

(* newSession(), up to its await of connection.newSession: lines 319-324 *)
newSession(maxq) ==
  /\ step("newSession")
  /\ emitted' = <<>>
  /\ IF ~ensureConnection
       THEN /\ result' = "SessionError"
            /\ UNCHANGED pending
       ELSE /\ Req(connection, "newSession") \notin pending
            /\ Cardinality(inFlight) < maxq
            /\ result' = "pending"
            /\ pending' = pending \cup {Req(connection, "newSession")}
  /\ UNCHANGED <<clientVars, tproc, connCount, pc, agent, streamClosed,
                 closedHooks>>

(* newSession() after its response: lines 326-352.  applyDefault tells whether
   the configured default model resolves to a model other than the session's
   current one and the connection offers unstable_setSessionModel. *)
newSessionResponse(k, sid, modeId, modelId, applyDefault) ==
  /\ Req(k, "newSession") \in pending
  /\ ~streamClosed[k]
  /\ record("newSessionResolved", 0)
  /\ response' = <<sid, modeId, modelId>>
  /\ permission' = permission
  /\ read' = read
  /\ inbound' = NoUpdate
  /\ config' = [config EXCEPT !.outcome = Null]
  /\ view' = view
  /\ sessionId' = sid
  /\ IF applyDefault
       THEN /\ metadata' = sessionMetadata(modeId, modelId)
            /\ pending' = (pending \ {Req(k, "newSession")})
                             \cup {Req(k, "defaultModel")}
            /\ result' = "pending"
            /\ emitted' = <<>>
       ELSE /\ metadata' = handOut(sessionMetadata(modeId, modelId))
            /\ pending' = pending \ {Req(k, "newSession")}
            /\ result' = "ok"
            /\ emitted' = <<MetadataEvent(metadata')>>
  /\ UNCHANGED <<state, connection, process, terminals, terminalCounter, tproc,
                 connCount, pc, agent, streamClosed, closedHooks>>

\* the response of an agent that has modes and models
NewSessionResponse(k) ==
  \E sid \in SessionIds, applyDefault \in BOOLEAN :
    newSessionResponse(k, sid, "build", "mA", applyDefault)

NewSessionError(k) ==
  /\ Req(k, "newSession") \in pending
  /\ canFail(k)
  /\ step("newSessionRejected")
  /\ result' = "error"
  /\ emitted' = <<>>
  /\ pending' = pending \ {Req(k, "newSession")}
  /\ UNCHANGED <<clientVars, tproc, connCount, pc, agent, streamClosed,
                 closedHooks>>

\* writes of the form (this.metadata.models as {...}).currentModelId = id,
\* guarded by this.metadata.models being an object
patchModel(m, id) ==
  IF m.models # NoModels THEN [m EXCEPT !.models.currentModelId = id] ELSE m
patchMode(m, id) ==
  IF m.modes # NoModes THEN [m EXCEPT !.modes.currentModeId = id] ELSE m

(* the default-model step of newSession(): lines 337-351 *)
defaultModelDone(k, preferredModelId) ==
  /\ Req(k, "defaultModel") \in pending
  /\ record("newSessionResolved", 0)
  /\ response' = <<>>
  /\ permission' = permission
  /\ read' = read
  /\ inbound' = NoUpdate
  /\ result' = "ok"
  /\ pending' = pending \ {Req(k, "defaultModel")}
  /\ \/ /\ ~streamClosed[k]
        /\ metadata' = handOut(patchModel(metadata, preferredModelId))
        /\ config' = [config EXCEPT !.outcome = "applied"]
        /\ view' = view
     \/ /\ canFail(k)
        /\ metadata' = handOut(metadata)
        /\ config' = [config EXCEPT !.outcome = "failed"]
        /\ view' = view
  /\ emitted' = <<MetadataEvent(metadata')>>
  /\ UNCHANGED <<state, connection, process, sessionId, terminals,
                 terminalCounter, tproc, connCount, pc, agent, streamClosed,
                 closedHooks>>

\* the preferred model is "mB"
DefaultModelDone(k) == defaultModelDone(k, "mB")

\* faulty variant: setModel() takes the method for granted
unstable_setSessionModelAssumed == TRUE

\* connection.unstable_setSessionModel is there: line 386
unstable_setSessionModel == config.hasSetModel

(* sendPrompt(), cancelTurn(), setMode(), setModel() up to their await:
   lines 354-397 *)
sessionCall(m, maxq) ==
  /\ step(m)
  /\ emitted' = <<>>
  /\ IF ~ensureConnection \/ ~ensureSession
       THEN /\ result' = "SessionError"
            /\ UNCHANGED pending
       ELSE \/ /\ m = "setSessionModel"
               /\ ~unstable_setSessionModel
               /\ result' = "void"
               /\ UNCHANGED pending
            \/ /\ m = "setSessionModel" => unstable_setSessionModel
               /\ Req(connection, m) \notin pending
               /\ Cardinality(inFlight) < maxq
               /\ result' = "pending"
               /\ pending' = pending \cup {Req(connection, m)}
  /\ UNCHANGED <<clientVars, tproc, connCount, pc, agent, streamClosed,
                 closedHooks>>

(* their continuation once the response arrived *)
SessionResponse(k, m) ==
  /\ Req(k, m) \in pending
  /\ ~streamClosed[k]
  /\ step("resolved")
  /\ result' = "ok"
  /\ pending' = pending \ {Req(k, m)}
  /\ metadata' = CASE m = "setSessionMode" /\ metadata.modes # NoModes ->
                          handOut(patchMode(metadata, "plan"))
                   [] m = "setSessionModel" /\ metadata.models # NoModels ->
                          handOut(patchModel(metadata, "mB"))
                   [] OTHER -> metadata
  /\ emitted' = IF \/ m = "setSessionMode" /\ metadata.modes # NoModes
                   \/ m = "setSessionModel" /\ metadata.models # NoModels
                  THEN <<MetadataEvent(metadata')>> ELSE <<>>
  /\ UNCHANGED <<state, connection, process, sessionId, terminals,
                 terminalCounter, tproc, connCount, pc, agent, streamClosed,
                 closedHooks>>

SessionError(k, m) ==
  /\ Req(k, m) \in pending
  /\ canFail(k)
  /\ step("rejected")
  /\ result' = "error"
  /\ emitted' = <<>>
  /\ pending' = pending \ {Req(k, m)}
  /\ UNCHANGED <<clientVars, tproc, connCount, pc, agent, streamClosed,
                 closedHooks>>

-----------------------------------------------------------------------------
(* Terminals *)

\* exitCode: null
NoCode == -1

\* faulty variant: a call is delivered only when no handler is suspended
inboundOpenOneAtATime ==
  /\ \E k \in Conns : pc[k] # "unused" /\ ~streamClosed[k]
  /\ ~permission.open
  /\ \A t \in DOMAIN tproc : tproc[t].waiters = 0

\* the agent can still deliver an inbound call: some connection's stream is open
inboundOpen == \E k \in Conns : pc[k] # "unused" /\ ~streamClosed[k]

\* the ManagedTerminal of handleCreateTerminal, with its spawned process
\* received, tail, waiters and responses are not fields of ManagedTerminal:
\* received counts the bytes delivered so far (up to MaxLimit + 1), tail holds
\* the last outputByteLimit of them (all of them without a limit), waiters
\* counts the callers suspended on exitPromise, responses is what the callers
\* resumed last were given
newTerminal(limit) ==
  [alive |-> TRUE, killed |-> FALSE, kills |-> 0, output |-> <<>>,
   outputByteLimit |-> limit, truncated |-> FALSE, exitCode |-> NoCode,
   signal |-> Null, received |-> 0, tail |-> <<>>, exited |-> FALSE, waiters |-> 0,
   responses |-> <<>>]

\* faulty variant: the counter does not move past the first id
nextTerminalIdReused(counter) == 1

\* ++this.terminalCounter, the part of the id that tells terminals apart
nextTerminalId(counter) == counter + 1

(* handleCreateTerminal: lines 508-559 *)
handleCreateTerminal(limit, maxt) ==
  /\ inboundOpen
  /\ terminalCounter < maxt
  /\ terminalStep("createTerminal", nextTerminalId(terminalCounter))
  /\ result' = "ok"
  /\ emitted' = <<>>
  /\ terminalCounter' = nextTerminalId(terminalCounter)
  /\ tproc' = [t \in DOMAIN tproc \cup {nextTerminalId(terminalCounter)} |->
                 IF t = nextTerminalId(terminalCounter) THEN newTerminal(limit)
                                                       ELSE tproc[t]]
  /\ terminals' = terminals \cup {nextTerminalId(terminalCounter)}
  /\ UNCHANGED <<state, connection, process, sessionId, metadata, connCount, pc,
                 agent, streamClosed, closedHooks, pending>>

\* faulty variant: the terminal is registered before its process is spawned
registryAfterThrowRegistered(reg, t) == reg \cup {t}

\* the registry when handleCreateTerminal throws: this.terminals.set (line 557)
\* is its last statement but one, so it was not reached
registryAfterThrow(reg, t) == reg

(* handleCreateTerminal when a statement after line 509 throws: spawn() on a
   command that is no string or with no file descriptor left, the env of the
   request being no array, proc.stdout missing at line 542 *)
handleCreateTerminalThrows(maxt) ==
  /\ inboundOpen
  /\ terminalCounter < maxt
  /\ terminalStep("createTerminal", nextTerminalId(terminalCounter))
  /\ result' = "error"
  /\ emitted' = <<>>
  /\ terminalCounter' = nextTerminalId(terminalCounter)
  /\ terminals' = registryAfterThrow(terminals, nextTerminalId(terminalCounter))
  /\ UNCHANGED <<state, connection, process, sessionId, metadata, tproc,
                 connCount, pc, agent, streamClosed, closedHooks, pending>>

(* handleKillTerminal: lines 597-609 *)
handleKillTerminal(t) ==
  /\ inboundOpen
  /\ terminalStep("killTerminal", t)
  /\ result' = "ok"
  /\ emitted' = <<>>
  /\ tproc' = IF t \in terminals THEN killRegistered(tproc, {t}) ELSE tproc
  /\ UNCHANGED <<clientVars, connCount, pc, agent, streamClosed, closedHooks,
                 pending>>

\* faulty variant: the id stays in the registry
deleteSkipped(reg, t) == reg

\* this.terminals.delete(params.terminalId)
delete(reg, t) == reg \ {t}

(* handleReleaseTerminal: lines 611-625 *)
handleReleaseTerminal(t) ==
  /\ inboundOpen
  /\ terminalStep("releaseTerminal", t)
  /\ result' = "ok"
  /\ emitted' = <<>>
  /\ tproc' = IF t \in terminals THEN killRegistered(tproc, {t}) ELSE tproc
  /\ terminals' = delete(terminals, t)
  /\ UNCHANGED <<state, connection, process, sessionId, metadata,
                 terminalCounter, connCount, pc, agent, streamClosed,
                 closedHooks, pending>>

\* what handleWaitForTerminalExit returns: exitCode and, when there is one,
\* the signal (lines 591-594)
exitResponse(terminal) == <<terminal.exitCode, terminal.signal>>

\* faulty variant: only the caller that waited first reads the terminal
resolveExitFirstOnly(terminal) ==
  [terminal EXCEPT
     !.exited = TRUE,
     !.waiters = 0,
     !.responses = IF terminal.waiters > 0
                     THEN [w \in 1..terminal.waiters |->
                             IF w = 1 THEN exitResponse(terminal)
                                      ELSE <<NoCode, Null>>]
                     ELSE @]

\* terminal.resolveExit(): exitPromise is fulfilled and the callers suspended
\* on it (line 589) resume, one after the other, before any other event is
\* handled; each returns what the terminal holds then
resolveExit(terminal) ==
  [terminal EXCEPT
     !.exited = TRUE,
     !.waiters = 0,
     !.responses = IF terminal.waiters > 0
                     THEN [w \in 1..terminal.waiters |-> exitResponse(terminal)]
                     ELSE @]

(* the "exit" observer of a terminal process: lines 545-549 *)
TerminalExit(t, code, sig) ==
  /\ t \in DOMAIN tproc
  /\ tproc[t].alive
  /\ terminalStep("terminalExit", t)
  /\ result' = "ok"
  /\ emitted' = <<>>
  /\ tproc' = [tproc EXCEPT ![t] =
                 resolveExit([@ EXCEPT !.alive = FALSE, !.exitCode = code,
                                       !.signal = sig])]
  /\ UNCHANGED <<clientVars, connCount, pc, agent, streamClosed, closedHooks,
                 pending>>

\* faulty variant: a call on an id outside the registry is answered
unknownTerminalAnswered == "ok"

\* throw new Error(`Unknown terminal: ...`): lines 564 and 586
unknownTerminal == "Unknown terminal"

\* the exit-status snapshot of handleTerminalOutput (lines 567-572): <<>> is
\* null
exitStatus(terminal) ==
  IF terminal.exitCode = NoCode THEN <<>> ELSE <<terminal.exitCode, terminal.signal>>

(* handleTerminalOutput: lines 561-579 *)
handleTerminalOutput(t) ==
  /\ inboundOpen
  /\ record("terminalOutput", t)
  /\ emitted' = <<>>
  /\ IF t \in terminals
       THEN /\ result' = "ok"
            /\ response' = <<tproc[t].output, tproc[t].truncated, exitStatus(tproc[t])>>
       ELSE /\ result' = unknownTerminal
            /\ response' = <<>>
  /\ UNCHANGED <<clientVars, tproc, connCount, pc, agent, streamClosed,
                 closedHooks, pending, permission, read, inbound>>
  /\ config' = [config EXCEPT !.outcome = Null]
  /\ view' = view

(* handleWaitForTerminalExit: lines 581-595.  A call on a terminal whose
   exitPromise is fulfilled resumes at once; any other call on a registered
   terminal stays suspended at line 589 *)
handleWaitForTerminalExit(t, maxw) ==
  /\ inboundOpen
  /\ (t \in terminals /\ ~tproc[t].exited) => tproc[t].waiters < maxw
  /\ terminalStep("waitForTerminalExit", t)
  /\ emitted' = <<>>
  /\ IF t \notin terminals
       THEN /\ result' = unknownTerminal
            /\ tproc' = tproc
       ELSE IF tproc[t].exited
         THEN /\ result' = "ok"
              /\ tproc' = [tproc EXCEPT ![t].responses = <<exitResponse(tproc[t])>>]
         ELSE /\ result' = "pending"
              /\ tproc' = [tproc EXCEPT ![t].waiters = @ + 1]
  /\ UNCHANGED <<clientVars, connCount, pc, agent, streamClosed, closedHooks,
                 pending>>

-----------------------------------------------------------------------------
(* Terminal output.  A JavaScript string is modelled as the sequence of its
   code points, a Buffer as the sequence of its bytes. *)

Replacement == 65533    \* U+FFFD, what decoding puts for a malformed byte

\* Buffer.from(<one code point>, "utf8")
utf8(cp) ==
  IF cp < 128 THEN <<cp>>
  ELSE IF cp < 2048 THEN <<192 + (cp \div 64), 128 + (cp % 64)>>
  ELSE IF cp < 65536
    THEN <<224 + (cp \div 4096), 128 + ((cp \div 64) % 64), 128 + (cp % 64)>>
  ELSE <<240 + (cp \div 262144), 128 + ((cp \div 4096) % 64),
         128 + ((cp \div 64) % 64), 128 + (cp % 64)>>

\* Buffer.from(text, "utf8")
RECURSIVE encode(_)
encode(text) == IF text = <<>> THEN <<>> ELSE utf8(Head(text)) \o encode(Tail(text))

\* Buffer.byteLength(text, "utf8")
byteLength(text) == Len(encode(text))

isContinuation(b) == b >= 128 /\ b <= 191

\* the number of continuation bytes the lead byte b announces; 0 for a byte
\* that cannot start a multi-byte sequence
announced(b) ==
  IF b >= 194 /\ b <= 223 THEN 1
  ELSE IF b >= 224 /\ b <= 239 THEN 2
  ELSE IF b >= 240 /\ b <= 244 THEN 3
  ELSE 0

\* how many of the bytes after position 1 are continuation bytes, up to n
RECURSIVE followers(_, _)
followers(bytes, n) ==
  IF n = 0 \/ Len(bytes) < 2 \/ ~isContinuation(bytes[2]) THEN 0
  ELSE 1 + followers(Tail(bytes), n - 1)

\* the code point of a complete sequence of n + 1 bytes
RECURSIVE payload(_, _, _)
payload(bytes, n, acc) ==
  IF n = 0 THEN acc
  ELSE payload(Tail(bytes), n - 1, acc * 64 + (bytes[1] - 128))

leadBits(b) ==
  IF b >= 240 THEN b - 240 ELSE IF b >= 224 THEN b - 224 ELSE b - 192

\* Buffer.toString("utf8"): a byte that starts no sequence (a continuation byte
\* on its own among them) and a sequence cut short each decode to U+FFFD
RECURSIVE decode(_)
decode(bytes) ==
  IF bytes = <<>> THEN <<>>
  ELSE LET b == Head(bytes)
           n == announced(b)
           k == followers(bytes, n)
       IN  IF b < 128 THEN <<b>> \o decode(Tail(bytes))
           ELSE IF n > 0 /\ k = n
             THEN <<payload(Tail(bytes), n, leadBits(b))>>
                    \o decode(SubSeq(bytes, n + 2, Len(bytes)))
           ELSE <<Replacement>> \o decode(SubSeq(bytes, k + 2, Len(bytes)))

\* Buffer.slice(start) on a buffer
sliceFrom(bytes, start) == SubSeq(bytes, start + 1, Len(bytes))

\* the truncation of appendTerminalOutput: lines 499-502
truncate(output, limit) ==
  LET encoded == encode(output)
  IN  decode(sliceFrom(encoded, Len(encoded) - limit))

\* faulty variant: the flag follows the size of the buffer that was kept
appendTerminalOutputFlagFollows(terminal, text) ==
  LET output == terminal.output \o text
  IN  IF terminal.outputByteLimit # NoLimit
           /\ byteLength(output) > terminal.outputByteLimit
        THEN [terminal EXCEPT
                !.output = truncate(output, terminal.outputByteLimit),
                !.truncated = byteLength(truncate(output, terminal.outputByteLimit))
                                > terminal.outputByteLimit]
        ELSE [terminal EXCEPT !.output = output]

(* appendTerminalOutput: lines 493-506 *)
appendTerminalOutput(terminal, text) ==
  LET output == terminal.output \o text
  IN  IF terminal.outputByteLimit # NoLimit
           /\ byteLength(output) > terminal.outputByteLimit
        THEN [terminal EXCEPT !.output = truncate(output, terminal.outputByteLimit),
                              !.truncated = TRUE]
        ELSE [terminal EXCEPT !.output = output]

\* the characters of the chunks: "a", "é" and "€" (1, 2 and 3 bytes)
Alphabet == {97, 233, 8364}
Chunks == UNION {[1..n -> Alphabet] : n \in 1..MaxChunk}
Limits == {NoLimit} \cup (0..MaxLimit)

\* a buffer without a limit grows with every chunk: the run stops feeding it
\* at MaxOutput characters
fits(terminal, text) ==
  terminal.outputByteLimit # NoLimit \/ Len(terminal.output) + Len(text) <= MaxOutput

\* the bytes delivered to the terminal once text has come, counted up to
\* MaxLimit + 1
delivered(terminal, text) ==
  LET n == terminal.received + byteLength(text)
  IN  IF n > MaxLimit THEN MaxLimit + 1 ELSE n

\* the last limit bytes of bytes, all of them without a limit
lastBytes(bytes, limit) ==
  IF limit # NoLimit /\ Len(bytes) > limit
    THEN SubSeq(bytes, Len(bytes) - limit + 1, Len(bytes))
    ELSE bytes

\* one chunk reaches the observer: appendTerminalOutput, the count and the tail
chunk(terminal, text) ==
  [appendTerminalOutput(terminal, text) EXCEPT
     !.received = delivered(terminal, text),
     !.tail = lastBytes(terminal.tail \o encode(text), terminal.outputByteLimit)]

(* the "data" observers of a terminal's stdout and stderr: lines 542-543 *)
TerminalData(t, stream, text) ==
  /\ t \in DOMAIN tproc
  /\ tproc[t].alive
  /\ fits(tproc[t], text)
  /\ step(stream)
  /\ result' = "ok"
  /\ emitted' = <<>>
  /\ tproc' = [tproc EXCEPT ![t] = chunk(@, text)]
  /\ UNCHANGED <<clientVars, connCount, pc, agent, streamClosed, closedHooks,
                 pending>>

\* "\n" followed by error.message, here the message "e"
ErrorText == <<10, 101>>

(* the "error" observer of a terminal process: lines 551-555.  The event comes
   from a failed spawn (no process runs) or from a failed kill (it still does). *)
TerminalError(t) ==
  /\ t \in DOMAIN tproc
  /\ tproc[t].alive
  /\ fits(tproc[t], ErrorText)
  /\ terminalStep("terminalError", t)
  /\ result' = "ok"
  /\ emitted' = <<>>
  /\ \E dies \in BOOLEAN :
       tproc' = [tproc EXCEPT ![t] =
                   resolveExit([chunk(@, ErrorText) EXCEPT
                                  !.exitCode = 1, !.alive = ~dies])]
  /\ UNCHANGED <<clientVars, connCount, pc, agent, streamClosed, closedHooks,
                 pending>>

-----------------------------------------------------------------------------
(* session/update notifications *)

\* the notifications of the agent: the two kinds that patch the metadata,
\* the first one also with a value that is no array, and two kinds that do not
SessionUpdates ==
  {[NoUpdate EXCEPT !.sessionId = sid, !.sessionUpdate = "available_commands_update",
                    !.availableCommands = commands] :
     sid \in SessionIds, commands \in {NoArray, <<"c1">>}}
  \cup {[NoUpdate EXCEPT !.sessionId = sid, !.sessionUpdate = "current_mode_update",
                         !.currentModeId = "plan"] : sid \in SessionIds}
  \cup {[NoUpdate EXCEPT !.sessionId = sid, !.sessionUpdate = "current_model_update",
                         !.currentModelId = "mB"] : sid \in SessionIds}
  \cup {[NoUpdate EXCEPT !.sessionId = sid, !.sessionUpdate = "agent_message_chunk"] :
          sid \in SessionIds}

\* the available_commands_update branch: lines 402-408
patchesCommands(params) ==
  params.sessionUpdate = "available_commands_update" /\ params.availableCommands # NoArray

\* faulty variant: the modes object is cut down to the current id
nextModesCut(modes, params) ==
  [currentModeId |-> params.currentModeId, availableModes |-> Null, handedAs |-> Null]

\* nextModes, a copy of the modes object with the notified id: lines 411-412
nextModes(modes, params) ==
  [modes EXCEPT !.currentModeId = params.currentModeId, !.handedAs = Null]

\* faulty variant: a notification the client has used itself is not passed on
forwardUnusedOnly(params) ==
  IF params.sessionUpdate \in {"available_commands_update", "current_mode_update"}
    THEN <<>> ELSE <<SessionUpdateEvent(params)>>

\* this.onSessionUpdateEmitter.fire(params): line 420
forward(params) == <<SessionUpdateEvent(params)>>

(* handleSessionUpdate: lines 399-421 *)
handleSessionUpdate(params) ==
  /\ inboundOpen
  /\ record("sessionUpdate", 0)
  /\ response' = <<>>
  /\ inbound' = params
  /\ result' = "ok"
  /\ LET afterCommands ==
           IF patchesCommands(params)
             THEN handOut([metadata EXCEPT !.commands = params.availableCommands])
             ELSE metadata
         patchesMode ==
           params.sessionUpdate = "current_mode_update" /\ afterCommands.modes # NoModes
         afterMode ==
           IF patchesMode
             THEN handOut([afterCommands EXCEPT
                             !.modes = nextModes(afterCommands.modes, params)])
             ELSE afterCommands
     IN  /\ metadata' = afterMode
         /\ emitted' = (IF patchesCommands(params)
                          THEN <<MetadataEvent(afterCommands)>> ELSE <<>>)
                        \o (IF patchesMode THEN <<MetadataEvent(afterMode)>> ELSE <<>>)
                        \o forward(params)
  /\ UNCHANGED <<state, connection, process, sessionId, terminals, terminalCounter,
                 tproc, connCount, pc, agent, streamClosed, closedHooks, pending,
                 permission, read>>
  /\ config' = [config EXCEPT !.outcome = Null]
  /\ view' = view

(* the sessionMetadata accessor: lines 83-85 *)
getSessionMetadata ==
  /\ step("sessionMetadata")
  /\ result' = "ok"
  /\ emitted' = <<>>
  /\ metadata' = handOut(metadata)
  /\ UNCHANGED <<state, connection, process, sessionId, terminals, terminalCounter,
                 tproc, connCount, pc, agent, streamClosed, closedHooks, pending>>

-----------------------------------------------------------------------------
(* Permission requests.  The options of a request are modelled by their
   kinds, in the order of the request; the optionId of an option is its
   position. *)

PermissionModes == {"ask", "allowAll"}
PermissionOptionKinds == {"allow_once", "allow_always", "reject_once", "reject_always"}
PermissionOptions == UNION {[1..n -> PermissionOptionKinds] : n \in 0..MaxOptions}

\* params.options.find(option => option.kind === kind): the first option of
\* that kind, 0 (undefined) when there is none
find(options, kind) ==
  IF \E i \in DOMAIN options : options[i] = kind
    THEN CHOOSE i \in DOMAIN options :
           /\ options[i] = kind
           /\ \A j \in DOMAIN options : options[j] = kind => i <= j
    ELSE 0

\* faulty variant: the first option that allows, whichever its kind
allowOptionAnyKind(options) ==
  IF find(options, "allow_always") = 0 THEN find(options, "allow_once")
  ELSE IF find(options, "allow_once") = 0 THEN find(options, "allow_always")
  ELSE IF find(options, "allow_once") < find(options, "allow_always")
    THEN find(options, "allow_once")
  ELSE find(options, "allow_always")

\* allowOption: lines 427-428
allowOption(options) ==
  IF find(options, "allow_always") # 0 THEN find(options, "allow_always")
  ELSE find(options, "allow_once")

\* faulty variant: the policy is not looked at
autoSelectsAnyMode(mode, options) == allowOption(options) # 0

\* mode === "allowAll" && allowOption: line 430
autoSelects(mode, options) == mode = "allowAll" /\ allowOption(options) # 0

(* handlePermissionRequest up to the await of showQuickPick: lines 423-449.
   One chooser is open at a time. *)
handlePermissionRequest(mode, options) ==
  /\ inboundOpen
  /\ ~permission.open
  /\ record("requestPermission", 0)
  /\ response' = <<>>
  /\ emitted' = <<>>
  /\ IF autoSelects(mode, options)
       THEN /\ result' = "ok"
            /\ permission' = [mode |-> mode, options |-> options, shown |-> FALSE,
                               open |-> FALSE, picked |-> 0,
                               outcome |-> <<"selected", allowOption(options)>>]
       ELSE /\ result' = "pending"
            /\ permission' = [mode |-> mode, options |-> options, shown |-> TRUE,
                               open |-> TRUE, picked |-> 0, outcome |-> <<>>]
  /\ UNCHANGED <<clientVars, tproc, connCount, pc, agent, streamClosed,
                 closedHooks, pending, read, inbound>>
  /\ config' = [config EXCEPT !.outcome = Null]
  /\ view' = view

(* handlePermissionRequest after showQuickPick: lines 451-464.  picked is the
   position of the item the user chose, 0 when the chooser was dismissed. *)
QuickPick(picked) ==
  /\ permission.open
  /\ picked \in 0..Len(permission.options)
  /\ record("quickPick", 0)
  /\ response' = <<>>
  /\ emitted' = <<>>
  /\ result' = "ok"
  /\ permission' = [permission EXCEPT
                      !.open = FALSE,
                      !.picked = picked,
                      !.outcome = IF picked = 0 THEN <<"cancelled">>
                                                ELSE <<"selected", picked>>]
  /\ UNCHANGED <<clientVars, tproc, connCount, pc, agent, streamClosed,
                 closedHooks, pending, read, inbound>>
  /\ config' = [config EXCEPT !.outcome = Null]
  /\ view' = view

-----------------------------------------------------------------------------
(* readTextFile.  A text is the sequence of its characters. *)

LF == 10
CR == 13

\* the pieces of content between the matches of /\r?\n/, cur being the piece
\* read so far: a line feed ends the piece, which loses one carriage return
\* right before it
RECURSIVE splitFrom(_, _)
splitFrom(content, cur) ==
  IF content = <<>> THEN <<cur>>
  ELSE IF Head(content) = LF
    THEN <<IF cur # <<>> /\ cur[Len(cur)] = CR THEN SubSeq(cur, 1, Len(cur) - 1)
                                                ELSE cur>>
           \o splitFrom(Tail(content), <<>>)
  ELSE splitFrom(Tail(content), Append(cur, Head(content)))

\* content.split(/\r?\n/): line 475
split(content) == splitFrom(content, <<>>)

\* lines.join("\n"): line 478
RECURSIVE join(_)
join(lines) ==
  IF lines = <<>> THEN <<>>
  ELSE IF Len(lines) = 1 THEN lines[1]
  ELSE lines[1] \o <<LF>> \o join(Tail(lines))

\* Array.prototype.slice(start, end) for start >= 0
slice(lines, start, end) ==
  SubSeq(lines, start + 1, IF end < Len(lines) THEN end ELSE Len(lines))

\* faulty variant: line counts from 1
windowStartOneBased(line) == IF line = Absent \/ line < 1 THEN 0 ELSE line - 1

\* start: line 476
windowStart(line) == IF line = Absent THEN 0 ELSE IF line < 0 THEN 0 ELSE line

\* limit: line 477
windowLimit(limit, lines) ==
  IF limit = Absent THEN Len(lines) ELSE IF limit < 0 THEN 0 ELSE limit

\* the content handleReadTextFile returns: lines 472-481
readContent(content, line, limit) ==
  IF line # Absent \/ limit # Absent
    THEN LET lines == split(content)
             start == windowStart(line)
         IN  join(slice(lines, start, start + windowLimit(limit, lines)))
    ELSE content

\* the files read: up to MaxLines lines, line i empty or the i-th letter, all
\* ended by "\n" or all by "\r\n", the last one ended or not
RECURSIVE fileText(_, _, _)
fileText(texts, eol, ended) ==
  IF texts = <<>> THEN <<>>
  ELSE IF Len(texts) = 1 THEN texts[1] \o (IF ended THEN eol ELSE <<>>)
  ELSE texts[1] \o eol \o fileText(Tail(texts), eol, ended)

LineTexts(n) == {texts \in [1..n -> {<<>>} \cup {<<96 + i>> : i \in 1..n}] :
                   \A i \in 1..n : texts[i] \in {<<>>, <<96 + i>>}}
Files == {fileText(texts, eol, ended) :
            texts \in UNION {LineTexts(n) : n \in 0..MaxLines},
            eol \in {<<LF>>, <<CR, LF>>}, ended \in BOOLEAN}
Windows == {Absent} \cup (-1..MaxWindow)

(* handleReadTextFile: lines 467-482; content is the text of the file that
   readFile resolved with *)
handleReadTextFile(content, line, limit) ==
  /\ inboundOpen
  /\ record("readTextFile", 0)
  /\ response' = <<>>
  /\ emitted' = <<>>
  /\ result' = "ok"
  /\ read' = [content |-> content, line |-> line, limit |-> limit,
              returned |-> readContent(content, line, limit)]
  /\ UNCHANGED <<clientVars, tproc, connCount, pc, agent, streamClosed,
                 closedHooks, pending, permission, inbound>>
  /\ config' = [config EXCEPT !.outcome = Null]
  /\ view' = view

(* handleReadTextFile when readFile rejects (line 469): the file is missing *)
handleReadTextFileRejects ==
  /\ inboundOpen
  /\ step("readTextFile")
  /\ emitted' = <<>>
  /\ result' = "error"
  /\ UNCHANGED <<clientVars, tproc, connCount, pc, agent, streamClosed,
                 closedHooks, pending>>

(* handleWriteTextFile: lines 484-491.  written: createDirectory and writeFile
   both resolved.  The file system is no part of the model. *)
handleWriteTextFile(written) ==
  /\ inboundOpen
  /\ step("writeTextFile")
  /\ emitted' = <<>>
  /\ result' = IF written THEN "ok" ELSE "error"
  /\ UNCHANGED <<clientVars, tproc, connCount, pc, agent, streamClosed,
                 closedHooks, pending>>

-----------------------------------------------------------------------------
(* ChatViewProvider: the messages of the webview.  onDidReceiveMessage starts
   handleMessage for every message when it arrives (lines 72-74); a handler
   runs up to its next await of the storage or of the client, and the handlers
   of later messages run while it is suspended there.  SessionStorage is no
   part of src/: of its methods the model keeps only that they are awaited. *)

\* the record of a step of ChatViewProvider: it fires no event of the client
\* and leaves all of the client but its requests in flight
viewStep(op) ==
  /\ record(op, 0)
  /\ response' = <<>>
  /\ permission' = permission
  /\ read' = read
  /\ inbound' = NoUpdate
  /\ config' = [config EXCEPT !.outcome = Null]
  /\ emitted' = <<>>
  /\ UNCHANGED <<clientVars, tproc, connCount, pc, agent, streamClosed,
                 closedHooks>>

\* handlePrompt from the push of the user message to the await of
\* acp.sendPrompt: lines 348-367.  The client is connected and has a session,
\* so ensureConnectedSession() (lines 529-537) calls nothing.
startPrompt(h) ==
  /\ view' = [view EXCEPT !.promptInFlight = TRUE,
                          !.sent = @ + 1,
                          !.prompts[h] = "sendPrompt",
                          !.posted = <<"promptStart">>]
  /\ pending' = pending \cup {Req(connection, "prompt")}
  /\ result' = "pending"

(* handlePrompt up to its first await: lines 329-341.  h is the handler
   started for the message, trimmed its text after trim(). *)
handlePrompt(h, trimmed) ==
  /\ view.prompts[h] = "idle"
  /\ \A g \in 1..(h - 1) : view.prompts[g] # "idle"
  /\ ensureConnection
  /\ ensureSession
  /\ viewStep("view.prompt")
  /\ IF view.promptInFlight
       THEN /\ view' = [view EXCEPT !.prompts[h] = "refused", !.posted = <<"error">>]
            /\ result' = "refused"
            /\ UNCHANGED pending
       ELSE IF trimmed = ""
         THEN /\ view' = [view EXCEPT !.prompts[h] = "ignored", !.posted = <<>>]
              /\ result' = "ok"
              /\ UNCHANGED pending
         ELSE IF view.currentChatId = 0
           THEN /\ view' = [view EXCEPT !.prompts[h] = "createChat", !.posted = <<>>]
                /\ result' = "pending"
                /\ UNCHANGED pending
           ELSE startPrompt(h)

(* handlePrompt after storage.createChat: lines 341-345; a rejection leaves
   handlePrompt before its try block *)
chatCreated(h, created) ==
  /\ view.prompts[h] = "createChat"
  /\ viewStep("view.chatCreated")
  /\ UNCHANGED pending
  /\ IF created
       THEN /\ view' = [view EXCEPT !.currentChatId = h,
                                    !.prompts[h] = "loadChatHistory",
                                    !.posted = <<>>]
            /\ result' = "pending"
       ELSE /\ view' = [view EXCEPT !.prompts[h] = "failed", !.posted = <<>>]
            /\ result' = "error"

(* handlePrompt after loadChatHistory: lines 345-367 *)
historyLoaded(h) ==
  /\ view.prompts[h] = "loadChatHistory"
  /\ ensureConnection
  /\ ensureSession
  /\ viewStep("view.historyLoaded")
  /\ startPrompt(h)

(* handlePrompt after acp.sendPrompt, up to the await of saveCurrentChat:
   lines 367-383; resolved: the prompt request resolved *)
promptSettled(h, resolved) ==
  /\ view.prompts[h] = "sendPrompt"
  /\ viewStep("view.promptSettled")
  /\ view' = [view EXCEPT !.sent = @ - 1,
                          !.prompts[h] = "saveCurrentChat",
                          !.posted = IF resolved THEN <<"promptEnd">>
                                                 ELSE <<"error", "promptEnd">>]
  /\ pending' = IF view.sent = 1 THEN pending \ {Req(connection, "prompt")}
                                  ELSE pending
  /\ result' = IF resolved THEN "ok" ELSE "error"

(* the finally block of handlePrompt, after saveCurrentChat and
   loadChatHistory: lines 377-388 *)
promptFinished(h) ==
  /\ view.prompts[h] = "saveCurrentChat"
  /\ viewStep("view.promptFinished")
  /\ view' = [view EXCEPT !.promptInFlight = FALSE,
                          !.prompts[h] = "done",
                          !.posted = <<"chatListUpdated">>]
  /\ UNCHANGED pending
  /\ result' = "ok"

\* the messages whose handlers test promptInFlight first: newSession,
\* switchChat, deleteChat and clearAllChats
GuardedMessages == {"newSession", "switchChat", "deleteChat", "clearAllChats"}

(* newSession(), switchChat(), deleteChat(), clearAllChats() up to their
   first await.  One of them is under way at a time. *)
viewMessage(type) ==
  /\ view.other = Null
  /\ viewStep("view." \o type)
  /\ UNCHANGED pending
  /\ IF view.promptInFlight
       THEN /\ view' = [view EXCEPT !.posted = <<"error">>]
            /\ result' = "refused"
       ELSE /\ view' = [view EXCEPT !.other = type, !.posted = <<>>]
            /\ result' = "pending"

(* the rest of such a handler, by its assignment to currentChatId.  The
   session it asks the client for is left out.  current: the chat of
   deleteChat is the current one. *)
messageDone(current) ==
  /\ view.other # Null
  /\ viewStep("view.messageDone")
  /\ UNCHANGED pending
  /\ view' = [view EXCEPT
                !.other = Null,
                !.posted = <<"done">>,
                !.currentChatId =
                   CASE view.other \in {"newSession", "clearAllChats"} -> 0
                     [] view.other = "switchChat" -> 1
                     [] OTHER -> IF current THEN 0 ELSE @]
  /\ result' = "ok"

-----------------------------------------------------------------------------
(* Spec: the connection life cycle with the requests sent after the handshake *)
Next ==
  \/ connect(MaxConnects)
  \/ disconnect
  \/ \E i \in Conns : InitializeResponse(i)
  \/ \E i \in Conns : InitializeError(i)
  \/ \E i \in Conns : ProcessError(i)
  \/ \E i \in Conns : ProcessExit(i)
  \/ \E k \in Conns : StreamClosed(k)
  \/ \E k \in Conns : ClosedCallback(k)
  \/ newSession(MaxInFlight)
  \/ \E k \in Conns : NewSessionResponse(k)
  \/ \E k \in Conns : NewSessionError(k)
  \/ \E k \in Conns : DefaultModelDone(k)
  \/ \E m \in SessionMethods : sessionCall(m, MaxInFlight)
  \/ \E k \in Conns, m \in SessionMethods : SessionResponse(k, m)
  \/ \E k \in Conns, m \in SessionMethods : SessionError(k, m)

Spec == Init /\ [][Next]_vars

(* SpecSession: the same operations with its own bound on the attempts *)
NextSession ==
  \/ connect(SessionConnects)
  \/ disconnect
  \/ \E i \in Conns : InitializeResponse(i)
  \/ \E i \in Conns : InitializeError(i)
  \/ \E i \in Conns : ProcessError(i)
  \/ \E i \in Conns : ProcessExit(i)
  \/ \E k \in Conns : StreamClosed(k)
  \/ \E k \in Conns : ClosedCallback(k)
  \/ newSession(MaxInFlight)
  \/ \E k \in Conns : NewSessionResponse(k)
  \/ \E k \in Conns : NewSessionError(k)
  \/ \E k \in Conns : DefaultModelDone(k)
  \/ \E m \in SessionMethods : sessionCall(m, MaxInFlight)
  \/ \E k \in Conns, m \in SessionMethods : SessionResponse(k, m)
  \/ \E k \in Conns, m \in SessionMethods : SessionError(k, m)

SpecSession == Init /\ [][NextSession]_vars

(* SpecTeardown: one connection, from connect() to its teardown, with a
   session and terminals *)
terminalExits(t) ==
  TerminalExit(t, IF tproc[t].killed THEN NoCode ELSE 0,
                  IF tproc[t].killed THEN "SIGTERM" ELSE Null)

NextTeardown ==
  \/ connect(1)
  \/ disconnect
  \/ \E i \in Conns : InitializeResponse(i)
  \/ \E i \in Conns : InitializeError(i)
  \/ \E i \in Conns : ProcessError(i)
  \/ \E i \in Conns : ProcessExit(i)
  \/ \E k \in Conns : StreamClosed(k)
  \/ \E k \in Conns : ClosedCallback(k)
  \/ newSession(MaxInFlight)
  \/ \E k \in Conns : NewSessionResponse(k)
  \/ \E k \in Conns : NewSessionError(k)
  \/ \E k \in Conns : DefaultModelDone(k)
  \/ handleCreateTerminal(NoLimit, MaxTerminals)
  \/ \E t \in TermIds : handleKillTerminal(t)
  \/ \E t \in TermIds : handleReleaseTerminal(t)
  \/ \E t \in TermIds : terminalExits(t)

SpecTeardown == Init /\ [][NextTeardown]_vars

\* a client that connect() has just connected, and no permission request yet
Connected ==
  /\ state = "connected"
  /\ connection = 1
  /\ process = 1
  /\ sessionId = Null
  /\ metadata = EmptyMeta
  /\ terminals = {}
  /\ terminalCounter = 0
  /\ tproc = <<>>
  /\ connCount = 1
  /\ pc = [i \in Conns |-> IF i = 1 THEN "resolved" ELSE "unused"]
  /\ agent = [i \in Conns |-> [alive |-> i = 1, killed |-> FALSE, listeners |-> i = 1]]
  /\ streamClosed = [i \in Conns |-> FALSE]
  /\ closedHooks = [i \in Conns |-> IF i = 1 THEN 1 ELSE 0]
  /\ pending = {}
  /\ lastOp = "initialize.ok"
  /\ afterTeardown = FALSE
  /\ result = "ok"
  /\ emitted = <<StateEvent("connected")>>
  /\ terminalId = 0
  /\ repeated = FALSE
  /\ response = <<>>
  /\ permission = NoPermission
  /\ inbound = NoUpdate
  /\ view = NoView

(* SpecOutput: one terminal of a connected client and its output *)
InitOutput == Connected /\ read = NoRead /\ config = NoConfig

NextOutput ==
  \/ \E limit \in Limits : handleCreateTerminal(limit, 1)
  \/ \E t \in TermIds, text \in Chunks : TerminalData(t, "stdout", text)
  \/ \E t \in TermIds, text \in Chunks : TerminalData(t, "stderr", text)
  \/ \E t \in TermIds : TerminalError(t)
  \/ \E t \in TermIds : terminalExits(t)

SpecOutput == InitOutput /\ [][NextOutput]_vars

(* SpecRegistry: the registry of a connected client: terminals created,
   killed, released and removed by disconnect(), and the calls of the agent on
   ids inside and outside the registry.  No caller is left suspended here. *)
CreatedIds == 1..MaxCreated

NextRegistry ==
  \/ disconnect
  \/ handleCreateTerminal(NoLimit, MaxCreated)
  \/ \E t \in CreatedIds : handleTerminalOutput(t)
  \/ \E t \in CreatedIds : handleWaitForTerminalExit(t, 0)
  \/ \E t \in CreatedIds : handleKillTerminal(t)
  \/ \E t \in CreatedIds : handleReleaseTerminal(t)
  \/ \E t \in CreatedIds : terminalExits(t)

SpecRegistry == InitOutput /\ [][NextRegistry]_vars

(* SpecWait: one terminal of a connected client, the callers waiting for its
   exit and the ways its process ends *)
NextWait ==
  \/ disconnect
  \/ handleCreateTerminal(NoLimit, 1)
  \/ \E t \in TermIds : handleTerminalOutput(t)
  \/ \E t \in TermIds : handleWaitForTerminalExit(t, MaxWaiters)
  \/ \E t \in TermIds : handleKillTerminal(t)
  \/ \E t \in TermIds : handleReleaseTerminal(t)
  \/ \E t \in TermIds : terminalExits(t)
  \/ \E t \in TermIds : TerminalError(t)

SpecWait == InitOutput /\ [][NextWait]_vars

(* SpecPermission: the permission requests of the agent of a connected client *)
NextPermission ==
  \/ \E mode \in PermissionModes, options \in PermissionOptions :
       handlePermissionRequest(mode, options)
  \/ \E picked \in 0..MaxOptions : QuickPick(picked)

SpecPermission == InitOutput /\ [][NextPermission]_vars

(* SpecInbound: the calls and notifications of the agent of a connected client
   with a session, those that fail and those that stay suspended included *)
NextInbound ==
  \/ newSession(MaxInFlight)
  \/ \E k \in Conns : newSessionResponse(k, "s1", "build", "mA", FALSE)
  \/ handleCreateTerminal(NoLimit, MaxCreated)
  \/ handleCreateTerminalThrows(MaxCreated)
  \/ \E t \in CreatedIds : handleTerminalOutput(t)
  \/ \E t \in CreatedIds : handleWaitForTerminalExit(t, 1)
  \/ \E t \in CreatedIds : terminalExits(t)
  \/ handleReadTextFile(<<97>>, Absent, Absent)
  \/ handleReadTextFileRejects
  \/ \E written \in BOOLEAN : handleWriteTextFile(written)
  \/ handlePermissionRequest("ask", <<"allow_once">>)
  \/ \E picked \in 0..1 : QuickPick(picked)
  \/ \E commands \in {NoArray, <<"c1">>} :
       handleSessionUpdate([NoUpdate EXCEPT !.sessionId = "s1",
                                            !.sessionUpdate = "available_commands_update",
                                            !.availableCommands = commands])

SpecInbound == InitOutput /\ [][NextInbound]_vars

(* SpecView: the messages of the webview to the ChatViewProvider of a
   connected client, once the client has its session *)
NextView ==
  \/ newSession(MaxInFlight)
  \/ \E k \in Conns : newSessionResponse(k, "s1", "build", "mA", FALSE)
  \/ \E h \in 1..MaxPrompts, trimmed \in {"", "hi"} : handlePrompt(h, trimmed)
  \/ \E h \in 1..MaxPrompts, created \in BOOLEAN : chatCreated(h, created)
  \/ \E h \in 1..MaxPrompts : historyLoaded(h)
  \/ \E h \in 1..MaxPrompts, resolved \in BOOLEAN : promptSettled(h, resolved)
  \/ \E h \in 1..MaxPrompts : promptFinished(h)
  \/ \E type \in GuardedMessages : viewMessage(type)
  \/ \E current \in BOOLEAN : messageDone(current)

SpecView == InitOutput /\ [][NextView]_vars

(* SpecMetadata: the session and the metadata of a connected client: the
   requests that make and change them, the notifications of the agent, the
   accessor and disconnect() *)
NextMetadata ==
  \/ disconnect
  \/ newSession(MaxInFlight)
  \/ \E k \in Conns, sid \in SessionIds, modeId \in {Null, "build"},
        modelId \in {Null, "mA"}, applyDefault \in BOOLEAN :
       /\ applyDefault => (modelId # Null /\ config.hasSetModel)
       /\ newSessionResponse(k, sid, modeId, modelId, applyDefault)
  \/ \E k \in Conns : NewSessionError(k)
  \/ \E k \in Conns : DefaultModelDone(k)
  \/ \E m \in SessionMethods : sessionCall(m, MaxInFlight)
  \/ \E k \in Conns, m \in SessionMethods : SessionResponse(k, m)
  \/ \E k \in Conns, m \in SessionMethods : SessionError(k, m)
  \/ \E params \in SessionUpdates : handleSessionUpdate(params)
  \/ getSessionMetadata

\* the connection has unstable_setSessionModel or not
InitMetadata ==
  /\ Connected
  /\ read = NoRead
  /\ config \in {[NoConfig EXCEPT !.hasSetModel = has] : has \in BOOLEAN}

SpecMetadata == InitMetadata /\ [][NextMetadata]_vars

(* SpecRead: a readTextFile call of the agent of a connected client, the call
   being any of ReadRequests *)
ReadRequests ==
  {[content |-> content, line |-> line, limit |-> limit, returned |-> <<>>] :
     content \in Files, line \in Windows, limit \in Windows}

InitRead == Connected /\ read \in ReadRequests /\ config = NoConfig

NextRead ==
  /\ lastOp # "readTextFile"
  /\ handleReadTextFile(read.content, read.line, read.limit)

SpecRead == InitRead /\ [][NextRead]_vars

(* SpecDefault: one newSession() of a connected client, the defaultModel
   setting, the models of the agent and the connection being any of Configs *)
QueryChars == {"m", "A", "b", " "}
Settings == UNION {[1..n -> QueryChars] : n \in 0..MaxQuery}
Models == [modelId : ModelIds, name : ModelNames]
Configs ==
  {[query |-> query, hasModels |-> TRUE, availableModels |-> available,
    currentModelId |-> current, hasSetModel |-> hasSetModel, outcome |-> Null] :
     query \in Settings,
     available \in UNION {[1..n -> Models] : n \in 0..MaxModels},
     current \in ModelIds, hasSetModel \in BOOLEAN}
  \cup {[NoConfig EXCEPT !.query = query, !.hasSetModel = hasSetModel] :
          query \in Settings, hasSetModel \in BOOLEAN}

InitDefault == Connected /\ read = NoRead /\ config \in Configs

\* the model newSession() prefers
preferredModelId ==
  resolveConfiguredDefaultModelId(config.query, config.hasModels,
                                  config.availableModels)

NextDefault ==
  \/ /\ sessionId = Null
     /\ newSession(MaxInFlight)
  \/ \E k \in Conns :
       newSessionResponse(k, "s1", "build", config.currentModelId,
                          appliesDefault(preferredModelId, config.currentModelId,
                                         config.hasSetModel))
  \/ \E k \in Conns : defaultModelDone(k, preferredModelId)

SpecDefault == InitDefault /\ [][NextDefault]_vars
-----------------------------------------------------------------------------
(* Properties *)

AllowedTransitions ==
  {<<"disconnected", "connecting">>, <<"connecting", "connected">>,
   <<"connecting", "disconnected">>, <<"connected", "disconnected">>}

\* C1: every change of the connection state is disconnected->connecting,
\* connecting->connected, connecting->disconnected or connected->disconnected
C1_StateTransitions ==
  [][state' # state => <<state, state'>> \in AllowedTransitions]_vars

\* C2: after teardown ran, whatever triggered it, the state is disconnected,
\* the session id null, the metadata and the registry empty, and every terminal
\* that was registered and still running has been sent a kill
C2_TeardownEffect ==
  [][lastOp' \in TeardownOps =>
       /\ state' = "disconnected"
       /\ sessionId' = Null
       /\ metadata' = EmptyMeta
       /\ terminals' = {}
       /\ \A t \in terminals : tproc[t].alive => tproc'[t].kills >= 1]_vars

\* a teardown that ended a connected client and killed a running terminal
C2_Witness ==
  /\ lastOp \in TeardownOps
  /\ StateEvent("disconnected") \in {emitted[n] : n \in DOMAIN emitted}
  /\ \E t \in DOMAIN tproc : tproc[t].alive /\ tproc[t].kills = 1 /\ t \notin terminals

\* C3: a teardown invoked right after a teardown (the exit event after the
\* error event of the same process among them) does not throw, sends no
\* further kill and leaves what the first one left: disconnected, no session,
\* an empty registry
C3_TeardownTwice ==
  [][(lastOp \in TeardownOps /\ lastOp' \in TeardownTriggers \cup {"exitUnobserved"}) =>
       /\ result' = "ok"
       /\ state' = "disconnected"
       /\ sessionId' = Null
       /\ terminals' = {}
       /\ clientVars' = clientVars
       /\ tproc' = tproc]_vars

\* a teardown right after the teardown of a client that had a terminal running
C3_Witness ==
  /\ lastOp \in TeardownTriggers
  /\ afterTeardown
  /\ \E t \in DOMAIN tproc : tproc[t].alive /\ tproc[t].kills = 1 /\ t \notin terminals

\* C4: once teardown has run, no outbound request is left pending: each one
\* was rejected
C4_PendingRejected == lastOp \in TeardownOps => pending = {}

\* everything but the record of the last step
programVars == <<clientVars, tproc, connCount, pc, agent, streamClosed,
                 closedHooks, pending>>

\* C5: connect() on a connected client returns at once: no process, no
\* request, no event, nothing changed
C5_ConnectWhileConnected ==
  [][(lastOp' = "connect" /\ state = "connected") =>
       /\ result' = "ok"
       /\ emitted' = <<>>
       /\ programVars' = programVars]_vars

\* connect() returned on a connected client that has a session
C5_Witness ==
  /\ lastOp = "connect"
  /\ result = "ok"
  /\ state = "connected"
  /\ sessionId # Null
  /\ connection # 0

\* C6: connect() on a connecting client fails with AlreadyConnecting, spawns
\* nothing and leaves the attempt in progress as it was
C6_ConnectWhileConnecting ==
  [][(lastOp' = "connect" /\ state = "connecting") =>
       /\ result' = "AlreadyConnecting"
       /\ emitted' = <<>>
       /\ programVars' = programVars]_vars

\* connect() was refused while the initialize of an attempt was pending
C6_Witness ==
  /\ lastOp = "connect"
  /\ result = "AlreadyConnecting"
  /\ state = "connecting"
  /\ \E i \in Conns : Req(i, "initialize") \in pending /\ connection = i

\* C7: when initialize fails, connect() fails and the client is disconnected,
\* with no session id, empty metadata and no connection
C7_InitializeFails ==
  lastOp = "initializeRejected" =>
    /\ result = "InitializeFailed"
    /\ state = "disconnected"
    /\ sessionId = Null
    /\ metadata = EmptyMeta
    /\ connection = 0

\* the initialize of a connecting client failed
C7_Witness ==
  /\ lastOp = "initializeRejected"
  /\ emitted = <<StateEvent("disconnected"), MetadataEvent(EmptyMeta)>>

\* C8: an initialize response whose protocolVersion is not the client's, or
\* that is malformed, fails the attempt with ProtocolError and leaves the
\* client disconnected
C8_VersionValidated ==
  lastOp \in {"initialize.mismatch", "initialize.noVersion", "initialize.null"} =>
    result = "ProtocolError" /\ state = "disconnected"

\* the initialize of connection k got its successful response
initialized(k) == pc[k] \in {"resolved", "typeError"}

\* C9: no request other than initialize is sent on a connection before the
\* initialize of that connection has completed successfully
C9_InitializeFirst ==
  [][\A r \in pending' \ pending : r.method # "initialize" => initialized(r.conn)]_vars

\* C10: the byte size of the buffer of a terminal created with a limit never
\* exceeds the limit
C10_BufferWithinLimit ==
  \A t \in DOMAIN tproc :
    tproc[t].outputByteLimit # NoLimit =>
      byteLength(tproc[t].output) <= tproc[t].outputByteLimit

C12_BufferIsTail ==
  \A t \in DOMAIN tproc : encode(tproc[t].output) = tproc[t].tail

\* C13: a waitForTerminalExit call on a registered terminal has been answered
\* only if the process of the terminal has terminated
C13_ResolvedAfterExit ==
  \A t \in DOMAIN tproc : tproc[t].responses # <<>> => ~tproc[t].alive

\* C14: the callers suspended in waitForTerminalExit on one terminal are all
\* answered in the same step, with the same exit code and the same signal,
\* those the terminal holds
C14_SameAnswer ==
  [][\A t \in DOMAIN tproc :
       (tproc[t].waiters > 0 /\ tproc'[t].waiters # tproc[t].waiters
          /\ lastOp' # "waitForTerminalExit") =>
         /\ tproc'[t].waiters = 0
         /\ Len(tproc'[t].responses) = tproc[t].waiters
         /\ \A w \in DOMAIN tproc'[t].responses :
              tproc'[t].responses[w] = <<tproc'[t].exitCode, tproc'[t].signal>>]_vars

\* two callers were answered by the exit of a process
C14_Witness ==
  /\ lastOp = "terminalExit"
  /\ Len(tproc[terminalId].responses) >= 2

TerminalCalls == {"terminalOutput", "waitForTerminalExit", "killTerminal",
                  "releaseTerminal"}

\* what a call on an id outside the registry does: nothing, and it succeeds
\* for killTerminal and releaseTerminal and fails for the two others
asUnknown ==
  /\ programVars' = programVars
  /\ emitted' = <<>>
  /\ response' = <<>>
  /\ result' = IF lastOp' \in {"killTerminal", "releaseTerminal"}
                 THEN "ok" ELSE "Unknown terminal"

\* C15: on an id that is not in the registry killTerminal and releaseTerminal
\* succeed, terminalOutput and waitForTerminalExit fail, and none of them
\* changes anything
C15_UnknownId ==
  [][(lastOp' \in TerminalCalls /\ terminalId' \notin terminals) => asUnknown]_vars

\* waitForTerminalExit failed on an id never given out while a terminal was
\* registered
C15_Witness ==
  /\ lastOp = "waitForTerminalExit"
  /\ result = "Unknown terminal"
  /\ terminalId \notin DOMAIN tproc
  /\ terminals # {}

\* C16: releaseTerminal on a registered id succeeds, has the process killed if
\* it still runs, removes the id and nothing else from the registry and
\* leaves the other terminals as they were; an id that left the registry
\* never comes back, and the calls on it are calls on an unknown id
C16_Release ==
  [][/\ (lastOp' = "releaseTerminal" /\ terminalId' \in terminals) =>
          /\ result' = "ok"
          /\ terminals' = terminals \ {terminalId'}
          /\ tproc[terminalId'].alive =>
               tproc'[terminalId'].killed /\ tproc'[terminalId'].kills = 1
          /\ \A u \in DOMAIN tproc \ {terminalId'} : tproc'[u] = tproc[u]
          /\ <<state, connection, process, sessionId, metadata,
               terminalCounter>>' =
                <<state, connection, process, sessionId, metadata, terminalCounter>>
     /\ \A t \in DOMAIN tproc \ terminals : t \notin terminals'
     /\ (lastOp' \in TerminalCalls /\ terminalId' \in DOMAIN tproc \ terminals) =>
          asUnknown]_vars

\* terminalOutput failed on the id of a released terminal whose process had
\* been running, while another terminal stayed registered and untouched
C16_Witness ==
  /\ lastOp = "terminalOutput"
  /\ result = "Unknown terminal"
  /\ state = "connected"
  /\ terminalId \in DOMAIN tproc \ terminals
  /\ tproc[terminalId].alive
  /\ tproc[terminalId].kills = 1
  /\ \E u \in terminals : tproc[u].alive /\ tproc[u].kills = 0

\* C17: whatever killTerminal, releaseTerminal and teardown do, a terminal
\* process is sent a signal at most once; killTerminal repeated on an id
\* succeeds and changes nothing
C17_KillOnce ==
  [][/\ \A t \in DOMAIN tproc' : tproc'[t].kills <= 1
     /\ (lastOp' = "killTerminal" /\ repeated') =>
          result' = "ok" /\ programVars' = programVars]_vars

\* killTerminal repeated on a registered terminal whose process still runs
C17_Witness ==
  /\ lastOp = "killTerminal"
  /\ repeated
  /\ terminalId \in terminals
  /\ tproc[terminalId].alive
  /\ tproc[terminalId].kills = 1

\* C18: terminalOutput on a registered terminal returns the buffer, the
\* truncated flag and an exit status that is null exactly while the process
\* runs; once it has terminated the status carries the exit code and signal
C18_ExitStatus ==
  (lastOp = "terminalOutput" /\ result = "ok") =>
    /\ response[1] = tproc[terminalId].output
    /\ response[2] = tproc[terminalId].truncated
    /\ (response[3] = <<>>) = tproc[terminalId].alive
    /\ ~tproc[terminalId].alive =>
         response[3] = <<tproc[terminalId].exitCode, tproc[terminalId].signal>>

\* C19: the id createTerminal returns was never returned before, also not
\* for a terminal released or removed by teardown since
C19_FreshId ==
  [][lastOp' = "createTerminal" => terminalId' \notin DOMAIN tproc]_vars

\* a terminal was created after an earlier one had left the registry
C19_Witness ==
  /\ lastOp = "createTerminal"
  /\ terminalId \in terminals
  /\ \E u \in DOMAIN tproc \ terminals : u # terminalId

\* whether the request of the last step offers an option of that kind
offers(kind) == \E i \in DOMAIN permission.options : permission.options[i] = kind

\* the kind of the option the outcome selects
selectedKind == permission.options[permission.outcome[2]]

\* C20: with the policy allowAll a request that offers an allow_always option
\* is answered with one, a request that offers none but an allow_once option
\* with that, both without the chooser; a request that offers neither opens
\* the chooser
C20_AllowAll ==
  (lastOp = "requestPermission" /\ permission.mode = "allowAll") =>
    IF offers("allow_always")
      THEN /\ ~permission.shown
           /\ result = "ok"
           /\ permission.outcome[1] = "selected"
           /\ selectedKind = "allow_always"
    ELSE IF offers("allow_once")
      THEN /\ ~permission.shown
           /\ result = "ok"
           /\ permission.outcome[1] = "selected"
           /\ selectedKind = "allow_once"
    ELSE permission.shown /\ permission.outcome = <<>>

\* a request that lists allow_once before allow_always was answered with the
\* allow_always option, no chooser shown
C20_Witness ==
  /\ lastOp = "requestPermission"
  /\ permission.mode = "allowAll"
  /\ permission.options = <<"allow_once", "allow_always">>
  /\ permission.outcome = <<"selected", 2>>
  /\ ~permission.shown

\* C21: with the policy ask a request opens the chooser whatever it offers and
\* has no outcome before the chooser closes; its one outcome is then
\* cancelled when nothing was picked, else selected with the id of the
\* picked option, one of those offered
C21_Ask ==
  permission.mode = "ask" =>
    /\ lastOp = "requestPermission" =>
         /\ permission.shown
         /\ permission.open
         /\ result = "pending"
         /\ permission.outcome = <<>>
    /\ lastOp = "quickPick" =>
         /\ permission.shown
         /\ ~permission.open
         /\ permission.outcome =
              IF permission.picked = 0 THEN <<"cancelled">>
                                       ELSE <<"selected", permission.picked>>
         /\ permission.picked # 0 => permission.picked \in DOMAIN permission.options

\* under the policy ask the user picked the reject option of a request that
\* also offered allow_always
C21_Witness ==
  /\ lastOp = "quickPick"
  /\ permission.mode = "ask"
  /\ permission.options = <<"allow_always", "reject_once">>
  /\ permission.outcome = <<"selected", 2>>

\* the lines of the file of the last readTextFile call
readLines == split(read.content)

\* the 0-indexed positions of the window [line, line + limit) that the file
\* has, line being 0 and limit the rest of the file when not given
window ==
  LET from == IF read.line = Absent THEN 0 ELSE read.line
      to == IF read.limit = Absent THEN Len(readLines) ELSE from + read.limit
  IN  {i \in 0..(Len(readLines) - 1) : from <= i /\ i < to}

\* the lines at the positions of a set of consecutive positions, in order
linesAt(positions) ==
  IF positions = {} THEN <<>>
  ELSE LET first == CHOOSE i \in positions : \A j \in positions : i <= j
       IN  [n \in 1..Cardinality(positions) |-> readLines[first + n]]

\* C22: readTextFile without line and limit returns the content of the file
\* as it is; with a line (0 or more) or a limit it returns the lines of the
\* window [line, line + limit), counted from 0, line being 0 and limit the
\* rest of the file when not given
C22_ReadWindow ==
  (lastOp = "readTextFile" /\ (read.line = Absent \/ read.line >= 0)) =>
    IF read.line = Absent /\ read.limit = Absent
      THEN read.returned = read.content
      ELSE read.returned = join(linesAt(window))

\* line 2 and limit 2 on the file "a\nb\nc\nd\ne" returned "c\nd"
C22_Witness ==
  /\ lastOp = "readTextFile"
  /\ read.content = <<97, LF, 98, LF, 99, LF, 100, LF, 101>>
  /\ read.line = 2
  /\ read.limit = 2
  /\ read.returned = <<99, LF, 100>>

\* what a metadata object holds, whoever got hold of it
content(m) == [m EXCEPT !.modes.handedAs = Null, !.models.handedAs = Null]

\* the metadata-change events among the events of the last step
metadataEvents == {n \in DOMAIN emitted : emitted[n].ev = "metadata"}

C24_ModelUpdate ==
  (/\ lastOp = "sessionUpdate"
   /\ inbound.sessionUpdate = "current_model_update"
   /\ metadata.models # NoModels) =>
    /\ metadata.models.currentModelId = inbound.currentModelId
    /\ metadataEvents # {}

\* C25: a modes or models object that a subscriber got hold of, inside a
\* metadata snapshot, still holds what it held then
C25_SnapshotsImmutable ==
  /\ metadata.modes.handedAs # Null =>
       metadata.modes.currentModeId = metadata.modes.handedAs
  /\ metadata.models.handedAs # Null =>
       metadata.models.currentModelId = metadata.models.handedAs

\* C26: the step that handles a notification fires it once, as it came, to
\* the session-update subscribers, after the metadata-change events of the
\* step
C26_Forwarded ==
  lastOp = "sessionUpdate" =>
    /\ emitted # <<>>
    /\ emitted[Len(emitted)] = SessionUpdateEvent(inbound)
    /\ \A n \in 1..(Len(emitted) - 1) : emitted[n].ev = "metadata"

\* a notification that patched the metadata was forwarded after the event of
\* the patch
C26_Witness ==
  /\ lastOp = "sessionUpdate"
  /\ Len(emitted) = 2
  /\ emitted[1].ev = "metadata"
  /\ emitted[2] = SessionUpdateEvent(inbound)
  /\ inbound.sessionUpdate = "available_commands_update"

\* C27: the step that gets the response of newSession sets the session id to
\* the one of the response and the metadata to the modes, models and config
\* options of the response with an empty command list, whatever the metadata
\* was; the step that ends newSession emits the metadata
C27_NewSession ==
  [][lastOp' = "newSessionResolved" =>
       /\ response' # <<>> =>
            /\ sessionId' = response'[1]
            /\ content(metadata') =
                 [modes |-> responseModes(response'[2]),
                  models |-> responseModels(response'[3]),
                  commands |-> <<>>, configOptions |-> "cfg"]
       /\ result' = "ok" => emitted' = <<MetadataEvent(metadata')>>]_vars

\* newSession succeeded on a client that had a session with commands
C27_Witness ==
  /\ lastOp = "newSessionResolved"
  /\ result = "ok"
  /\ response = <<"s2", "build", Null>>
  /\ sessionId = "s2"
  /\ metadata.commands = <<>>
  /\ metadata.models = NoModels
  /\ emitted = <<MetadataEvent(metadata)>>

\* the models of the agent that equal the configured query, by id or by name
\* and whatever the case of the letters, and those that contain it
configuredQuery == toLowerCase(trim(config.query))
idAndName(n) ==
  {toLowerCase(chars(config.availableModels[n].modelId)),
   toLowerCase(chars(config.availableModels[n].name))}
exactMatches ==
  {n \in DOMAIN config.availableModels : configuredQuery \in idAndName(n)}
substringMatches ==
  {n \in DOMAIN config.availableModels :
     \E t \in idAndName(n) : includes(t, configuredQuery)}
firstOf(matches) ==
  config.availableModels[CHOOSE n \in matches : \A o \in matches : n <= o].modelId

\* a query is configured and resolves to a model that is not the current one
\* of the session
resolvesToAnother ==
  /\ configuredQuery # <<>>
  /\ substringMatches # {}
  /\ config.currentModelId #
       (IF exactMatches # {} THEN firstOf(exactMatches) ELSE firstOf(substringMatches))

setSessionModelIssued == \E k \in Conns : Req(k, "defaultModel") \in pending

\* a failed default-model request: newSession() succeeds, the session stays
\* and the current model is the one of the response
failureIgnored ==
  config'.outcome = "failed" =>
    /\ result' = "ok"
    /\ state' = "connected"
    /\ sessionId' = sessionId
    /\ sessionId' # Null
    /\ content(metadata') = content(metadata)
    /\ metadata'.models.currentModelId = config.currentModelId

\* C28 as stated: newSession() issues the setSessionModel request exactly when
\* the configured query resolves, an exact match of id or name before a
\* substring match, to a model other than the current one; a failure of the
\* request changes nothing
C28_AsStated ==
  [][lastOp' = "newSessionResolved" =>
       /\ response' # <<>> => (setSessionModelIssued' <=> resolvesToAnother)
       /\ failureIgnored]_vars

\* C28, amended: newSession() issues the setSessionModel request exactly when
\* the connection provides setSessionModel and the configured query resolves,
\* an exact match of id or name before a substring match, to a model other
\* than the current one; a failure of the request changes nothing
C28_DefaultModel ==
  [][lastOp' = "newSessionResolved" =>
       /\ response' # <<>> =>
            (setSessionModelIssued' <=> (resolvesToAnother /\ config.hasSetModel))
       /\ failureIgnored]_vars

\* the request for a model that equals the query, offered after one that only
\* contains it, has failed
C28_Witness ==
  /\ lastOp = "newSessionResolved"
  /\ config.outcome = "failed"
  /\ config.query = <<"m", " ">>
  /\ Len(config.availableModels) = 2
  /\ config.availableModels[1].modelId = "mA"
  /\ config.availableModels[2].modelId = "m"
  /\ config.currentModelId = "mA"
  /\ metadata.models.currentModelId = "mA"
  /\ sessionId = "s1"

\* C29: setModel() of a connected client with a session, on a connection
\* without unstable_setSessionModel, returns nothing, sends no request, throws
\* nothing, emits nothing and leaves the client as it is
C29_SetModelNoOp ==
  [][(/\ lastOp' = "setSessionModel"
      /\ ensureConnection
      /\ ensureSession
      /\ ~config.hasSetModel) =>
       /\ result' = "void"
       /\ pending' = pending
       /\ emitted' = <<>>
       /\ metadata' = metadata
       /\ UNCHANGED clientVars]_vars

\* setModel() returned at once on a client with a session that has models
C29_Witness ==
  /\ lastOp = "setSessionModel"
  /\ result = "void"
  /\ ~config.hasSetModel
  /\ state = "connected"
  /\ sessionId # Null
  /\ metadata.models.currentModelId = "mA"

\* C30: sendPrompt(), cancelTurn(), setMode() and setModel() of a client that
\* has no active connection or no session, and newSession() of a client that
\* has no active connection, throw, send no request, emit nothing and leave
\* the connection state, the session id and the metadata as they are
C30_Refused ==
  [][(\/ /\ lastOp' \in SessionMethods
         /\ (connection = 0 \/ state # "connected" \/ sessionId = Null)
      \/ /\ lastOp' = "newSession"
         /\ (connection = 0 \/ state # "connected")) =>
       /\ result' = "SessionError"
       /\ pending' = pending
       /\ emitted' = <<>>
       /\ state' = state
       /\ sessionId' = sessionId
       /\ metadata' = metadata]_vars

\* a call of a connected client without a session was refused
C30_Witness ==
  /\ lastOp \in SessionMethods
  /\ result = "SessionError"
  /\ state = "connected"
  /\ connection # 0
  /\ sessionId = Null
  /\ pending = {}

\* the calls of the agent that can fail inside their handler
FailingCalls ==
  {"terminalOutput", "waitForTerminalExit", "readTextFile", "writeTextFile",
   "createTerminal"}

\* C31: a call of the agent that fails inside its handler changes neither the
\* connection state nor the session id, the metadata or the terminal registry,
\* closes no stream and fails no request of the client: only its own result
\* is an error
C31_FailureContained ==
  [][(lastOp' \in FailingCalls /\ result' \notin {"ok", "pending"}) =>
       /\ state' = state
       /\ connection' = connection
       /\ sessionId' = sessionId
       /\ metadata' = metadata
       /\ terminals' = terminals
       /\ pending' = pending
       /\ emitted' = <<>>
       /\ inboundOpen'
       /\ streamClosed' = streamClosed]_vars

\* createTerminal failed on a connected client that has a session and a
\* terminal, and both are still there
C31_Witness ==
  /\ lastOp = "createTerminal"
  /\ result = "error"
  /\ state = "connected"
  /\ sessionId = "s1"
  /\ metadata.modes.currentModeId = "build"
  /\ terminals = {1}
  /\ terminalId = 2
  /\ inboundOpen

\* a handler is suspended: handlePermissionRequest on the chooser, or
\* handleWaitForTerminalExit on the exit of a terminal
chooserOpen == permission.open
waiting == \E t \in DOMAIN tproc : tproc[t].waiters > 0
streamOpen == \E k \in Conns : pc[k] # "unused" /\ ~streamClosed[k]

\* a notification of the agent
messageChunk ==
  [NoUpdate EXCEPT !.sessionId = "s1", !.sessionUpdate = "agent_message_chunk"]

C33_NewSessionFails ==
  lastOp = "newSessionRejected" =>
    /\ result = "error"
    /\ state = "disconnected"

\* C34: an agent process that is no longer this.process has exited or was
\* sent a kill, and at most one agent process runs without one
C34_OneAgentProcess ==
  /\ \A i \in 1..connCount : i # process => (~agent[i].alive \/ agent[i].killed)
  /\ Cardinality({i \in 1..connCount : agent[i].alive /\ ~agent[i].killed}) <= 1

\* C35: a teardown that follows a teardown at once emits no event
C35_TeardownSilent ==
  (lastOp \in TeardownOps /\ afterTeardown) => emitted = <<>>

\* C36: a connected client has its connection and its agent process
C36_ConnectedHasHandles == state = "connected" => (connection # 0 /\ process # 0)

\* the step runs the connection.closed callback of connection k, or the catch
\* block of the connect() that made connection k
closedCallbackOf(k) == closedHooks'[k] < closedHooks[k]
initializeFailureOf(k) == pc[k] = "awaitInit" /\ pc'[k] = "initFailed"

\* C37: the closed callback and the initialize failure of a connection made
\* before the current one leave the state, the connection, the process, the
\* session and the terminals of the current one as they are
C37_EarlierTrigger ==
  [][\A k \in Conns :
       (/\ connection # 0
        /\ k < connection
        /\ closedCallbackOf(k) \/ initializeFailureOf(k)) =>
         UNCHANGED <<state, connection, process, sessionId, terminals>>]_vars

\* C38: a client with a session id is connected, and a disconnected client
\* has the empty metadata
C38_SessionOnlyConnected ==
  /\ sessionId # Null => state = "connected"
  /\ state = "disconnected" => content(metadata) = EmptyMeta

\* C40: once a caller of waitForTerminalExit has been answered for a
\* terminal, the exit code and the signal the terminal holds, which later
\* calls report, stay as they are
C40_ExitStatusStable ==
  [][\A t \in DOMAIN tproc :
       tproc[t].responses # <<>> =>
         /\ tproc'[t].exitCode = tproc[t].exitCode
         /\ tproc'[t].signal = tproc[t].signal]_vars

\* a prompt message is being handled and its handler has not finished
promptUnfinished ==
  \E h \in 1..MaxPrompts :
    view.prompts[h] \in {"createChat", "loadChatHistory", "sendPrompt",
                         "saveCurrentChat"}

\* the steps that handle a message which is to be refused then
ViewMessages == {"view." \o type : type \in GuardedMessages \cup {"prompt"}}

\* C39: ChatViewProvider awaits at most one prompt request of the client, and
\* a prompt, newSession, switchChat, deleteChat or clearAllChats message
\* handled while the handler of an earlier prompt has not finished is refused
\* and sends no prompt request
C39_OnePromptInFlight ==
  [][/\ view'.sent <= 1
     /\ (promptUnfinished /\ lastOp' \in ViewMessages) =>
          /\ result' = "refused"
          /\ view'.sent = view.sent
          /\ pending' = pending]_vars

====
